---- MODULE Spec2Model ----
(***************************************************************************)
(* A model of the DNSSEC zone signer of hsm-tools (package signer).        *)
(*                                                                         *)
(* Modelled from the source: ReadAndParseZone, AddNSEC13, CreateNewDNSKEY, *)
(* CreateNewRRSIG, generateSalt (signer/utils.go) and the helper sign with *)
(* the tests that drive it (signer/signer_test.go).  Session.Sign,         *)
(* VerifyFile and the RRArray methods are not part of the source tree;     *)
(* where a property needs them they are modelled from the specification    *)
(* and say so.                                                             *)
(*                                                                         *)
(* Unsigned 32-bit fields that are only incremented (the SOA serial) are   *)
(* kept as two 16-bit limbs <<hi, lo>>, so that the arithmetic is exact.   *)
(***************************************************************************)
EXTENDS Integers, Sequences, FiniteSets, TLC

VARIABLES
    (* ReadAndParseZone *)
    file,          \* args.File: the entries the zone parser will deliver
    updateSerial,  \* the updateSerial parameter
    Zone,          \* args.Zone, a sequence of characters
    MinTTL,        \* args.MinTTL
    pos,           \* how many entries zone.Next() has consumed
    rrs,           \* the local rrs
    parseErr,      \* the error ReadAndParseZone returns ("unset" before)
    pcParse,       \* position in ReadAndParseZone
    (* AddNSEC13 *)
    NSEC3,         \* args.NSEC3
    OptOut,        \* args.OptOut
    RRs,           \* args.RRs
    salt,          \* the last value generateSalt returned
    lastErr,       \* the error of the last AddNSEC3Records call
    nsecCalls,     \* calls of AddNSECRecords so far
    nsec3Calls,    \* calls of AddNSEC3Records so far (counted up to MaxCount)
    nsec3Errs,     \* calls of AddNSEC3Records that returned an error (same)
    ret13,         \* what AddNSEC13 hands to its caller
    pc13,          \* position in AddNSEC13
    (* the clock and the expiration date *)
    clock,         \* what time.Now() returns, in steps of 128 seconds
    SignExpDate,   \* args.SignExpDate
    (* CreateNewRRSIG *)
    keyArg,        \* the parameter dnsKeyRR
    ttlArg,        \* the parameter rrSetTTL
    rrsig,         \* the RRSIG returned
    pcR,           \* position in CreateNewRRSIG
    (* the helper sign and the tests that call it *)
    CreateKeys,    \* args.CreateKeys
    hsmKeys,       \* the DNSKEYs of the key pairs the token holds
    session,       \* the session: "nil", "open" or "closed"
    err,           \* the variable err of the helper
    signedAt,      \* the clock when Sign read the expiration date
    output,        \* the records written to args.Output
    verifyErr,     \* what VerifyFile returned ("unset" before)
    pcT            \* position in the helper and the test

parseVars == <<file, updateSerial, Zone, MinTTL, pos, rrs, parseErr, pcParse>>

denialVars ==
    <<NSEC3, OptOut, RRs, salt, lastErr, nsecCalls, nsec3Calls, nsec3Errs,
      ret13, pc13>>

timeVars == <<clock, SignExpDate>>

rrsigVars == <<keyArg, ttlArg, rrsig, pcR>>

testVars ==
    <<CreateKeys, hsmKeys, session, err, signedAt, output, verifyErr, pcT>>

vars == <<parseVars, denialVars, timeVars, rrsigVars, testVars>>

-----------------------------------------------------------------------------
(* Bounds of the model *)

\* Longest zone stream given to the parser
MaxFile == 3

\* Most records a zone under test has besides the apex SOA and NS
MaxExtra == 3

\* The call counters of AddNSEC13 stop counting here
MaxCount == 3

\* Most steps of 128 seconds the clock advances between two readings
MaxElapsed == 1

-----------------------------------------------------------------------------
(* Unsigned 32-bit arithmetic on limbs *)

\* 2^16: a uint32 is hi * Limb + lo
Limb == 65536

\* uint32 addition of a small constant, wrapping at 2^32 (Go's += on uint32)
U32Add(u, k) ==
    LET lo == u[2] + k
    IN  <<(u[1] + (lo \div Limb)) % Limb, lo % Limb>>

-----------------------------------------------------------------------------
(* Owner names *)

\* The labels of the model in canonical (octet) order.  h0 .. h6 are the
\* labels a hashed owner name can have.
Labels == <<"a", "d", "g", "h0", "h1", "h2", "h3", "h4", "h5", "h6", "w">>

LabelOrd(l) == CHOOSE i \in 1..Len(Labels) : Labels[i] = l

\* An owner name is the sequence of its labels below the apex, the label
\* next to the apex first: <<>> is the apex, <<"d", "g">> is g.d.<zone>
Apex == <<>>

\* a is b or an ancestor of b
IsPrefix(a, b) == Len(a) <= Len(b) /\ SubSeq(b, 1, Len(a)) = a

\* Lexicographic order of two tuples of numbers, a proper prefix first
RECURSIVE TupleLess(_, _)
TupleLess(a, b) ==
    IF b = <<>> THEN FALSE
    ELSE IF a = <<>> THEN TRUE
    ELSE IF Head(a) # Head(b) THEN Head(a) < Head(b)
    ELSE TupleLess(Tail(a), Tail(b))

NameKey(n) == [i \in 1..Len(n) |-> LabelOrd(n[i])]

\* Canonical order of owner names (RFC 4034, 6.1): label by label from the
\* apex side
NameLess(a, b) == TupleLess(NameKey(a), NameKey(b))

-----------------------------------------------------------------------------
(* Resource records *)

\* The RR type codes of package dns
TypeA == 1
TypeNS == 2
TypeSOA == 6
TypeDS == 43
TypeRRSIG == 46
TypeNSEC == 47
TypeDNSKEY == 48
TypeNSEC3 == 50
TypeNSEC3PARAM == 51

\* A record with opaque RDATA (A, NS, DS, ...): data tells two RDATAs apart
RR(n, t, ttl, data) ==
    [name |-> n, rrtype |-> t, ttl |-> ttl, rdata |-> [data |-> data]]

\* An SOA record: serial and minttl, and refresh for the fields that are
\* only carried along
SOA(n, ttl, serial, refresh, minttl) ==
    [name |-> n, rrtype |-> TypeSOA, ttl |-> ttl,
     rdata |-> [serial |-> serial, refresh |-> refresh, minttl |-> minttl]]

\* The RDATA of a record as a tuple of numbers, for the order of records
RdataKey(r) ==
    CASE r.rrtype = TypeSOA ->
            <<r.rdata.serial[1], r.rdata.serial[2], r.rdata.refresh, r.rdata.minttl>>
      [] r.rrtype = TypeRRSIG -> <<r.rdata.covered, r.rdata.keytag>>
      [] r.rrtype = TypeDNSKEY -> <<r.rdata.flags>> \o r.rdata.publicKey
      [] r.rrtype \in {TypeNSEC, TypeNSEC3, TypeNSEC3PARAM} -> <<>>
      [] OTHER -> <<r.rdata.data>>

\* RRArray.Less: by owner name, then by type, then by RDATA
Less(a, b) ==
    IF a.name # b.name THEN NameLess(a.name, b.name)
    ELSE IF a.rrtype # b.rrtype THEN a.rrtype < b.rrtype
    ELSE TupleLess(RdataKey(a) \o <<a.ttl>>, RdataKey(b) \o <<b.ttl>>)

\* sort.Sort on an RRArray: the records of s in the order of Less.  Each
\* record goes to the place given by the number of records before it (equal
\* records cannot be told apart, so their order does not show).
SortRRs(s) ==
    LET place(i) ==
            1 + Cardinality({ j \in 1..Len(s) :
                                \/ Less(s[j], s[i])
                                \/ (s[j] = s[i] /\ j < i) })
    IN  [k \in 1..Len(s) |-> s[CHOOSE i \in 1..Len(s) : place(i) = k]]

\* All sequences over S of length at most n
SeqUpTo(S, n) == UNION { [1..k -> S] : k \in 0..n }

\* The elements of a sequence
Range(s) == { s[i] : i \in 1..Len(s) }

-----------------------------------------------------------------------------
(* ReadAndParseZone *)

\* An entry of the stream on which the zone parser stops with an error
Malformed == [syntaxError |-> TRUE]

\* The SOA of the test zone: serial 2019052103 = 30808 * 2^16 + 19015
SOATest == SOA(Apex, 86400, <<30808, 19015>>, 10800, 10800)
\* An SOA whose serial is 2^32 - 1, and one whose low limb carries
SOAWrap == SOA(Apex, 3600, <<65535, 65535>>, 7200, 300)
SOACarry == SOA(Apex, 3600, <<7, 65534>>, 7200, 60)

FileEntries ==
    { SOATest, SOAWrap, SOACarry,
      RR(Apex, TypeNS, 86400, 1),
      RR(<<"w">>, TypeA, 86400, 2),
      Malformed }

\* The zone names the callers pass: "", "c" and "c."
ZoneNames == { <<>>, <<"c">>, <<"c", ".">> }

\* The state of AddNSEC13 while another operation is examined
IdleDenial ==
    /\ NSEC3 = FALSE /\ OptOut = FALSE /\ RRs = <<>> /\ salt = <<>>
    /\ lastErr = "unset" /\ nsecCalls = 0 /\ nsec3Calls = 0 /\ nsec3Errs = 0
    /\ ret13 = "unset" /\ pc13 = "idle"

\* The state of CreateNewRRSIG, and that of the helper sign, likewise
IdleRRSIG ==
    /\ clock = 0 /\ SignExpDate = 0
    /\ keyArg = <<>> /\ ttlArg = 0 /\ rrsig = <<>> /\ pcR = "idle"

IdleTest ==
    /\ CreateKeys = FALSE /\ hsmKeys = {} /\ session = "nil" /\ err = "nil"
    /\ signedAt = 0 /\ output = {} /\ verifyErr = "unset" /\ pcT = "idle"

InitParse ==
    /\ IdleDenial /\ IdleRRSIG /\ IdleTest
    /\ file \in SeqUpTo(FileEntries, MaxFile)
    /\ updateSerial \in BOOLEAN
    /\ Zone \in ZoneNames
    /\ MinTTL = 0
    /\ pos = 0
    /\ rrs = <<>>
    /\ parseErr = "unset"
    /\ pcParse = "start"

\* Lines 33-42: rrs is made, the zone name gets its trailing dot, the parser
\* is created.  Indexing an empty zone name panics.
ParseBegin ==
    /\ pcParse = "start"
    /\ rrs' = <<>>
    /\ IF Len(Zone) = 0
       THEN /\ pcParse' = "panic"
            /\ Zone' = Zone
       ELSE /\ pcParse' = "loop"
            /\ Zone' = IF Zone[Len(Zone)] # "." THEN Zone \o <<".">> ELSE Zone
    /\ UNCHANGED <<file, updateSerial, MinTTL, pos, parseErr, denialVars, timeVars, rrsigVars, testVars>>

\* A slip the serial update could have: the customary increment by one
Appended_PlusOne(rr, upd) ==
    IF rr.rrtype = TypeSOA /\ upd
    THEN [rr EXCEPT !.rdata.serial = U32Add(rr.rdata.serial, 1)]
    ELSE rr

\* The record appended by one pass of the loop: the SOA serial is bumped
\* through the pointer the list holds (line 51)
Appended(rr, upd) ==
    IF rr.rrtype = TypeSOA /\ upd
    THEN [rr EXCEPT !.rdata.serial = U32Add(rr.rdata.serial, 2)]
    ELSE rr

\* Lines 43-54, one iteration: zone.Next() delivers a record
ParseNext ==
    /\ pcParse = "loop"
    /\ pos < Len(file)
    /\ file[pos + 1] # Malformed
    /\ LET rr == file[pos + 1]
       IN  /\ rrs' = Append(rrs, Appended(rr, updateSerial))
           /\ MinTTL' = IF rr.rrtype = TypeSOA THEN rr.rdata.minttl ELSE MinTTL
    /\ pos' = pos + 1
    /\ UNCHANGED <<file, updateSerial, Zone, parseErr, pcParse, denialVars, timeVars, rrsigVars, testVars>>

\* Lines 43, 55-56: zone.Next() reports ok = false (end of the stream, or a
\* syntax error, which is not looked at again); the list is sorted and
\* returned with a nil error
ParseReturn ==
    /\ pcParse = "loop"
    /\ (IF pos < Len(file) THEN file[pos + 1] = Malformed ELSE TRUE)
    /\ rrs' = SortRRs(rrs)
    /\ parseErr' = "nil"
    /\ pcParse' = "done"
    /\ UNCHANGED <<file, updateSerial, Zone, MinTTL, pos, denialVars, timeVars, rrsigVars, testVars>>

NextParse == ParseBegin \/ ParseNext \/ ParseReturn

SpecParse == InitParse /\ [][NextParse]_vars

-----------------------------------------------------------------------------
(* Properties of ReadAndParseZone *)

\* The records of the stream that precede its first syntax error
GoodPrefix(f) ==
    LET bad == { i \in 1..Len(f) : f[i] = Malformed }
    IN  IF bad = {} THEN f
        ELSE SubSeq(f, 1, (CHOOSE i \in bad : \A j \in bad : i <= j) - 1)

\* How many elements of the sequence s satisfy P
CountIn(s, P(_)) == Cardinality({ i \in 1..Len(s) : P(s[i]) })

IsSOA(r) == r.rrtype = TypeSOA

\* serial + 2 modulo 2^32, written out on the limbs
SerialPlusTwo(u) ==
    <<IF u[2] >= Limb - 2 THEN (IF u[1] = Limb - 1 THEN 0 ELSE u[1] + 1) ELSE u[1],
      IF u[2] >= Limb - 2 THEN u[2] + 2 - Limb ELSE u[2] + 2>>

\* What the claim expects of a record of the input
WithSerial(r, upd) ==
    IF IsSOA(r) /\ upd
    THEN [r EXCEPT !.rdata.serial = SerialPlusTwo(r.rdata.serial)]
    ELSE r

\* C6 (as stated): a stream without an SOA, or with more than one, is reported
\* as an error by ReadAndParseZone, and for an accepted stream MinTTL is the
\* minimum field of its single SOA.
C6_SOAValidated ==
    pcParse = "done" =>
        LET in == GoodPrefix(file)
            nSOA == CountIn(in, IsSOA)
        IN  /\ nSOA # 1 => parseErr # "nil"
            /\ (nSOA = 1 /\ parseErr = "nil") =>
                    \E i \in 1..Len(in) : IsSOA(in[i]) /\ MinTTL = in[i].rdata.minttl

\* C8: after ReadAndParseZone the returned list holds exactly the records read,
\* each SOA with its serial plus 2 (modulo 2^32) when updateSerial is set and
\* unchanged otherwise; every other record and every other field is as read.
C8_SerialUpdate ==
    pcParse = "done" =>
        LET in == GoodPrefix(file)
        IN  /\ Len(rrs) = Len(in)
            /\ \A i \in 1..Len(rrs) :
                   LET Same(x) == x = rrs[i]
                       Becomes(x) == WithSerial(x, updateSerial) = rrs[i]
                   IN  CountIn(rrs, Same) = CountIn(in, Becomes)

\* C8 witness: a list of several records was returned whose SOA serial wrapped
\* around 2^32
C8_Witness ==
    /\ pcParse = "done"
    /\ updateSerial
    /\ Len(rrs) >= 2
    /\ \E i \in 1..Len(rrs) : IsSOA(rrs[i]) /\ rrs[i].rdata.serial = <<0, 1>>
    /\ \E i \in 1..Len(rrs) : ~IsSOA(rrs[i])

-----------------------------------------------------------------------------
(* Zones under test *)

\* The records every zone under test has: the apex SOA and the apex NS
BaseZone == { SOATest, RR(Apex, TypeNS, 86400, 1) }

\* The records a zone under test may have besides: a host with two addresses,
\* a delegation d with its NS, a DS, glue at the delegation owner and glue
\* beneath it, and another host
ExtraRecords ==
    { RR(<<"a">>, TypeA, 86400, 1),
      RR(<<"a">>, TypeA, 86400, 2),
      RR(<<"d">>, TypeNS, 86400, 1),
      RR(<<"d">>, TypeDS, 86400, 1),
      RR(<<"d">>, TypeA, 86400, 4),
      RR(<<"d", "g">>, TypeA, 86400, 5),
      RR(<<"w">>, TypeA, 86400, 2) }

\* The records of a set as a sorted list
SortedSeqOf(S) ==
    [k \in 1..Cardinality(S) |->
        CHOOSE x \in S : Cardinality({ y \in S : Less(y, x) }) = k - 1]

\* The sorted record lists ReadAndParseZone can hand on
ZonesUnderTest ==
    { SortedSeqOf(BaseZone \cup E) :
        E \in { X \in SUBSET ExtraRecords : Cardinality(X) <= MaxExtra } }

\* The owner names of the zones under test, numbered for the hash
ZoneOwners == <<Apex, <<"a">>, <<"d">>, <<"d", "g">>, <<"w">>>>

Owners(z) == { r.name : r \in Range(z) }

TypesAt(n, z) == { r.rrtype : r \in { x \in Range(z) : x.name = n } }

\* The owners below the apex that bear an NS RRset
DelegationPoints(z) == { n \in Owners(z) : n # Apex /\ TypeNS \in TypesAt(n, z) }

AtOrBelowDelegation(n, z) == \E d \in DelegationPoints(z) : IsPrefix(d, n)

StrictlyBelowDelegation(n, z) ==
    \E d \in DelegationPoints(z) : IsPrefix(d, n) /\ d # n

\* The names of a set in canonical order
SortedNames(S) ==
    [k \in 1..Cardinality(S) |->
        CHOOSE x \in S : Cardinality({ y \in S : NameLess(y, x) }) = k - 1]

-----------------------------------------------------------------------------
(* generateSalt *)

HexDigits ==
    <<"0", "1", "2", "3", "4", "5", "6", "7", "8", "9", "a", "b", "c", "d", "e", "f">>

\* fmt.Sprintf("%x", r) for r >= 0: the hexadecimal digits of r, lowercase,
\* without leading zeros
RECURSIVE SprintfHex(_)
SprintfHex(r) ==
    IF r < 16 THEN <<HexDigits[r + 1]>>
    ELSE SprintfHex(r \div 16) \o <<HexDigits[(r % 16) + 1]>>

\* Values rand.Int31() can return, which lie in 0 .. 2^31 - 1:
\* 0, 0xa, 0xabc, 0xfffffff, 0x10000000, 0x76543210, 0x7fffffff
RandDraws == {0, 10, 2748, 268435455, 268435456, 1985229328, 2147483647}

\* generateSalt, given the number r that rand.Int31() returns
generateSalt(r) == SprintfHex(r)

-----------------------------------------------------------------------------
(* AddNSECRecords and AddNSEC3Records: not in the source tree, modelled from *)
(* the specification (4.3, scenarios S1-S3)                                  *)

\* NSEC mode: the owners that get an NSEC record are those that own an RRset
\* and are neither a delegation point nor beneath one
NSECOwners(z) == { n \in Owners(z) : ~AtOrBelowDelegation(n, z) }

NSECTypes(n, z) ==
    TypesAt(n, z) \cup {TypeNSEC, TypeRRSIG}
        \cup (IF n = Apex THEN {TypeDNSKEY} ELSE {})

AddNSECRecords(z, zone, minttl) ==
    LET names == SortedNames(NSECOwners(z))
        n == Len(names)
        nsec(i) ==
            [name |-> names[i], rrtype |-> TypeNSEC, ttl |-> minttl,
             rdata |-> [next |-> names[(i % n) + 1],
                        types |-> NSECTypes(names[i], z)]]
    IN  SortRRs(z \o [i \in 1..n |-> nsec(i)])

\* NSEC3 mode: the owners that are hashed are those that own an RRset and are
\* not strictly beneath a delegation; with opt-out a delegation without DS
\* is left out
NSEC3Owners(z, optOut) ==
    { n \in Owners(z) :
        /\ ~StrictlyBelowDelegation(n, z)
        /\ ~(optOut /\ n \in DelegationPoints(z) /\ TypeDS \notin TypesAt(n, z)) }

NSEC3Types(n, z) ==
    IF n \in DelegationPoints(z)
    THEN (TypesAt(n, z) \cap {TypeNS, TypeDS})
            \cup (IF TypeDS \in TypesAt(n, z) THEN {TypeRRSIG} ELSE {})
    ELSE TypesAt(n, z) \cup {TypeRRSIG}
            \cup (IF n = Apex THEN {TypeDNSKEY, TypeNSEC3PARAM} ELSE {})

DigitValue(c) == (CHOOSE i \in 1..16 : HexDigits[i] = c) - 1

RECURSIVE DigitSum(_)
DigitSum(s) == IF s = <<>> THEN 0 ELSE DigitValue(Head(s)) + DigitSum(Tail(s))

\* A stand-in for the iterated SHA-1 of an owner name under a salt, with a
\* range of 7 values: one salt in four maps every name to the same value,
\* the others hash the owners of the model without collision
HashName(n, s) ==
    LET code == CHOOSE i \in 1..Len(ZoneOwners) : ZoneOwners[i] = n
    IN  (code * (DigitSum(s) % 4)) % 7

HashLabel(h) == Labels[LabelOrd("h0") + h]

AddNSEC3Records(z, zone, optOut, s, minttl) ==
    LET owners == NSEC3Owners(z, optOut)
        hashes == { HashName(n, s) : n \in owners }
        collision == \E a, b \in owners : a # b /\ HashName(a, s) = HashName(b, s)
        next(h) ==
            LET above == { x \in hashes : x > h }
                pick == IF above = {} THEN hashes ELSE above
            IN  CHOOSE x \in pick : \A y \in pick : x <= y
        nsec3(n) ==
            [name |-> <<HashLabel(HashName(n, s))>>, rrtype |-> TypeNSEC3,
             ttl |-> minttl,
             rdata |-> [hashAlg |-> 1, flags |-> IF optOut THEN 1 ELSE 0,
                        iterations |-> 10, salt |-> s,
                        next |-> HashLabel(next(HashName(n, s))),
                        types |-> NSEC3Types(n, z)]]
        param ==
            [name |-> Apex, rrtype |-> TypeNSEC3PARAM, ttl |-> 0,
             rdata |-> [hashAlg |-> 1, flags |-> 0, iterations |-> 10,
                        salt |-> s]]
    IN  IF collision
        THEN [err |-> "collision", rrs |-> z]
        ELSE [err |-> "nil",
              rrs |-> SortedSeqOf(Range(z) \cup { nsec3(n) : n \in owners }
                                    \cup {param})]

-----------------------------------------------------------------------------
(* AddNSEC13 *)

\* The state of ReadAndParseZone once it has returned the test zone
ParsedTestZone ==
    /\ file = <<>> /\ updateSerial = FALSE /\ Zone = <<"c", ".">>
    /\ MinTTL = SOATest.rdata.minttl /\ pos = 0 /\ rrs = <<>>
    /\ parseErr = "nil" /\ pcParse = "done"

InitDenial ==
    /\ ParsedTestZone /\ IdleRRSIG /\ IdleTest
    /\ NSEC3 \in BOOLEAN
    /\ OptOut \in BOOLEAN
    /\ RRs \in ZonesUnderTest
    /\ salt = <<>>
    /\ lastErr = "unset"
    /\ nsecCalls = 0 /\ nsec3Calls = 0 /\ nsec3Errs = 0
    /\ ret13 = "unset"
    /\ pc13 = "entry"

\* The two chain builders tabulated over the zones under test, for the zone
\* name and the minimum TTL of ParsedTestZone: what AddNSECRecords leaves in
\* the list, and what AddNSEC3Records returns when generateSalt draws r
NSECOutcome ==
    [z \in ZonesUnderTest |->
        AddNSECRecords(z, <<"c", ".">>, SOATest.rdata.minttl)]

NSEC3Outcome ==
    [z \in ZonesUnderTest |-> [o \in BOOLEAN |-> [r \in RandDraws |->
        AddNSEC3Records(z, <<"c", ".">>, o, generateSalt(r),
                        SOATest.rdata.minttl)]]]

\* A counter that stops at MaxCount
Counted(n) == IF n < MaxCount THEN n + 1 ELSE n

\* Lines 66-68: without NSEC3, AddNSECRecords is called and AddNSEC13 returns;
\* it has no result
AddNSEC13_NSEC ==
    /\ pc13 = "entry"
    /\ ~NSEC3
    /\ RRs' = NSECOutcome[RRs]
    /\ nsecCalls' = Counted(nsecCalls)
    /\ ret13' = "void"
    /\ pc13' = "returned"
    /\ UNCHANGED <<NSEC3, OptOut, salt, lastErr, nsec3Calls, nsec3Errs, parseVars, timeVars,
                   rrsigVars, testVars>>

\* A slip the loop could have: leaving it whatever the call reported
AfterCall_AlwaysBreak(e) == "returned"

\* Lines 62-64: the loop is left only when the call reported no error
AfterCall(e) == IF e = "nil" THEN "returned" ELSE "loop"

\* Lines 60-65, one pass of the loop: AddNSEC3Records is called, with the salt
\* it draws by generateSalt; its error is compared with nil and dropped
AddNSEC13_NSEC3 ==
    /\ pc13 \in {"entry", "loop"}
    /\ NSEC3
    /\ \E r \in RandDraws :
         LET res == NSEC3Outcome[RRs][OptOut][r]
         IN  /\ salt' = generateSalt(r)
             /\ RRs' = res.rrs
             /\ lastErr' = res.err
             /\ nsec3Errs' = IF res.err = "nil" THEN nsec3Errs ELSE Counted(nsec3Errs)
             /\ pc13' = AfterCall(res.err)
             /\ ret13' = IF AfterCall(res.err) = "returned" THEN "void" ELSE ret13
    /\ nsec3Calls' = Counted(nsec3Calls)
    /\ UNCHANGED <<NSEC3, OptOut, nsecCalls, parseVars, timeVars, rrsigVars, testVars>>

NextDenial == AddNSEC13_NSEC \/ AddNSEC13_NSEC3

SpecDenial == InitDenial /\ [][NextDenial]_vars

\* The program keeps running: a step that is possible is eventually taken
SpecDenialFair == SpecDenial /\ WF_vars(NextDenial)

-----------------------------------------------------------------------------
(* Properties of AddNSEC13 and generateSalt *)

\* C5 (as stated): an error AddNSEC3Records returns while the NSEC3 chain is
\* built is surfaced to the caller of AddNSEC13.
C5_ErrorSurfaced ==
    (pc13 = "returned" /\ NSEC3 /\ nsec3Errs > 0) => ret13 = "error"

\* C7 (as stated): every value generateSalt returns is a lowercase hexadecimal
\* string of 8 digits, which encodes exactly 4 bytes.
C7_SaltIsFourBytes ==
    salt # <<>> =>
        /\ Len(salt) = 8
        /\ \A i \in 1..Len(salt) : salt[i] \in Range(HexDigits)

-----------------------------------------------------------------------------
(* Time *)

\* Instants are counted in steps of 128 seconds since the Unix epoch, the
\* largest step that divides both a day and 2^32 seconds; every instant of
\* the model lies on such a step, so t.Unix() is 128 times the count
StepSeconds == 128

StepsPerDay == 86400 \div StepSeconds

\* uint32(t.Unix()) for an instant t: the low 32 bits of the seconds
U32Steps == 33554432

U32(t) == t % U32Steps

\* Days since the epoch of a date of the proleptic Gregorian calendar, as
\* time.Date computes it; a day past the end of a month runs into the next
DaysFromCivil(y, m, d) ==
    LET yy == IF m <= 2 THEN y - 1 ELSE y
        era == yy \div 400
        yoe == yy - era * 400
        mp == IF m > 2 THEN m - 3 ELSE m + 9
        doy == (153 * mp + 2) \div 5 + d - 1
        doe == yoe * 365 + yoe \div 4 - yoe \div 100 + doy
    IN  era * 146097 + doe - 719468

\* The date <<year, month, day>> of a day counted from the epoch
CivilFromDays(z) ==
    LET zz == z + 719468
        era == zz \div 146097
        doe == zz - era * 146097
        yoe == (doe - doe \div 1460 + doe \div 36524 - doe \div 146096) \div 365
        doy == doe - (365 * yoe + yoe \div 4 - yoe \div 100)
        mp == (5 * doy + 2) \div 153
        d == doy - (153 * mp + 2) \div 5 + 1
        m == IF mp < 10 THEN mp + 3 ELSE mp - 9
    IN  <<yoe + era * 400 + (IF m <= 2 THEN 1 ELSE 0), m, d>>

\* The instant of a date at a time of day (in steps), in UTC
At(y, m, d, tod) == DaysFromCivil(y, m, d) * StepsPerDay + tod

\* t.AddDate(years, 0, 0): same month, day and time of day in another year,
\* normalised as time.Date does (29 February becomes 1 March)
AddDate(t, years) ==
    LET c == CivilFromDays(t \div StepsPerDay)
    IN  At(c[1] + years, c[2], c[3], t % StepsPerDay)

\* time.Time{}: 1 January of the year 1
ZeroTime == At(1, 1, 1, 0)

IsZero(t) == t = ZeroTime

-----------------------------------------------------------------------------
(* CreateNewDNSKEY and CreateNewRRSIG *)

\* strings.ToLower on the characters zone names are written with
ToLower(str) == [i \in 1..Len(str) |-> IF str[i] = "C" THEN "c" ELSE str[i]]

\* CreateNewDNSKEY; the owner name zone is the apex.  publicKey is the key's
\* wire form, a sequence of bytes.
CreateNewDNSKEY(zone, flags, algorithm, ttl, publicKey) ==
    [name |-> Apex, rrtype |-> TypeDNSKEY, ttl |-> ttl,
     rdata |-> [flags |-> flags, protocol |-> 3, algorithm |-> algorithm,
                publicKey |-> publicKey]]

\* dns.DNSKEY.KeyTag (RFC 4034, appendix B): the RDATA summed as 16-bit words
KeyTag(key) ==
    LET wire == <<key.rdata.flags \div 256, key.rdata.flags % 256,
                  key.rdata.protocol, key.rdata.algorithm>>
                    \o key.rdata.publicKey
        word(i) == IF i % 2 = 1 THEN wire[i] * 256 ELSE wire[i]
        RECURSIVE sum(_)
        sum(i) == IF i = 0 THEN 0 ELSE word(i) + sum(i - 1)
        ac == sum(Len(wire))
    IN  (ac + ((ac \div 65536) % 65536)) % 65536

\* A slip the default could have: the signature expires when it is made
DefaultExpiration_Now(now) == now

\* Line 90: the default expiration, one calendar year after now
DefaultExpiration(now) == AddDate(now, 1)

\* A slip CreateNewRRSIG could have: the key tag is left unset
CreateNewRRSIG_NoKeyTag(zone, dnsKeyRR, expDate, rrSetTTL, t1, t2) ==
    LET exp == IF IsZero(expDate) THEN DefaultExpiration(t1) ELSE expDate
    IN  [ttl |-> rrSetTTL,
         rdata |-> [algorithm |-> dnsKeyRR.rdata.algorithm,
                    signer |-> ToLower(zone),
                    keytag |-> 0,
                    inception |-> U32(t2),
                    expiration |-> U32(exp)]]

\* CreateNewRRSIG; t1 and t2 are what time.Now() returns at line 90 and at
\* line 101.  The header has its TTL only: owner, type and class are left
\* for the signing call to fill in.
CreateNewRRSIG(zone, dnsKeyRR, expDate, rrSetTTL, t1, t2) ==
    LET exp == IF IsZero(expDate) THEN DefaultExpiration(t1) ELSE expDate
    IN  [ttl |-> rrSetTTL,
         rdata |-> [algorithm |-> dnsKeyRR.rdata.algorithm,
                    signer |-> ToLower(zone),
                    keytag |-> KeyTag(dnsKeyRR),
                    inception |-> U32(t2),
                    expiration |-> U32(exp)]]

-----------------------------------------------------------------------------
(* CreateNewRRSIG as an operation *)

\* Instants the clock can show: the day of writing, a leap day, and the days
\* around 7 February 2105, one year before the seconds pass 2^32
NowSamples ==
    { At(2026, 11, 1, 0), At(2024, 2, 29, 300), At(2105, 2, 6, 0),
      At(2105, 2, 8, 0), At(2106, 2, 7, 180) }

\* Expiration dates a caller can pass at the instant now: none, the one of
\* the tests (a year ago), the day before and the day after, a date before
\* the epoch and a date whose seconds do not fit 32 bits
ExpDates(now) ==
    { ZeroTime, AddDate(now, -1), now - StepsPerDay, now + StepsPerDay,
      At(1960, 1, 1, 0), At(2200, 1, 1, 0) }

\* Key records: a key-signing and a zone-signing key with the same key tag,
\* and a zone-signing key with another
KSK1 == CreateNewDNSKEY(<<"c", ".">>, 257, 8, 10800, <<3, 1, 0, 1, 200, 17>>)
ZSK1 == CreateNewDNSKEY(<<"c", ".">>, 256, 8, 10800, <<3, 1, 0, 1, 200, 18>>)
ZSK2 == CreateNewDNSKEY(<<"c", ".">>, 256, 8, 10800, <<3, 1, 0, 1, 77, 5>>)

InitRRSIG ==
    /\ IdleDenial /\ IdleTest
    /\ file = <<>> /\ updateSerial = FALSE /\ MinTTL = 0 /\ pos = 0
    /\ rrs = <<>> /\ parseErr = "unset" /\ pcParse = "idle"
    /\ Zone \in { <<"c", ".">>, <<"C", ".">> }
    /\ clock \in NowSamples
    /\ SignExpDate \in ExpDates(clock)
    /\ keyArg \in {KSK1, ZSK1, ZSK2}
    /\ ttlArg \in {300, 86400}
    /\ rrsig = <<>>
    /\ pcR = "entry"

\* Lines 88-104; the clock is read at line 90 and again at line 101, and may
\* have advanced in between
CallCreateNewRRSIG ==
    /\ pcR = "entry"
    /\ \E d \in 0..MaxElapsed :
         /\ clock' = clock + d
         /\ rrsig' = CreateNewRRSIG(Zone, keyArg, SignExpDate, ttlArg,
                                    clock, clock + d)
    /\ pcR' = "done"
    /\ UNCHANGED <<SignExpDate, keyArg, ttlArg, parseVars, denialVars, testVars>>

NextRRSIG == CallCreateNewRRSIG

SpecRRSIG == InitRRSIG /\ [][NextRRSIG]_vars

-----------------------------------------------------------------------------
(* Properties of CreateNewRRSIG *)

\* 2^32 seconds, the first instant whose seconds do not fit 32 bits
Wrap == At(2106, 2, 7, 182)

-----------------------------------------------------------------------------
(* Session.Sign and VerifyFile: not in the source tree, modelled from the    *)
(* specification (4.5, 4.7)                                                  *)

\* The RRsets of a set of records, each as <<owner, type>>
RRsetsOf(S) == { <<r.name, r.rrtype>> : r \in S }

Members(S, n, t) == { r \in S : r.name = n /\ r.rrtype = t }

\* The delegation points of a set of records
Delegations(S) ==
    { r.name : r \in { x \in S : x.rrtype = TypeNS /\ x.name # Apex } }

\* An RRset is signed unless it lies at or beneath a delegation point; the DS
\* RRset of a delegation point is signed
Signable(S, n, t) ==
    \/ \A d \in Delegations(S) : ~IsPrefix(d, n)
    \/ (n \in Delegations(S) /\ t = TypeDS)

\* The TTL of an RRset: the least TTL of its members
RRsetTTL(S, n, t) ==
    CHOOSE x \in { r.ttl : r \in Members(S, n, t) } :
        \A y \in { r.ttl : r \in Members(S, n, t) } : x <= y

\* What is signed: the RRSIG RDATA without the signature, and the RRset with
\* the original TTL in place of each member's
ToBeSigned(n, covered, origTTL, skel, S) ==
    [owner |-> n, covered |-> covered, labels |-> Len(n), origTTL |-> origTTL,
     algorithm |-> skel.algorithm, signer |-> skel.signer,
     keytag |-> skel.keytag, inception |-> skel.inception,
     expiration |-> skel.expiration,
     rrset |-> { [r EXCEPT !.ttl = origTTL] : r \in Members(S, n, covered) }]

\* An ideal signature: it names the public key of the key pair that made it
\* and what it was made over
Signature(key, tbs) == [by |-> key.rdata.publicKey, over |-> tbs]

\* The RRSIG of one RRset: the skeleton of CreateNewRRSIG, completed by the
\* signing call
SignRRset(S, n, t, zone, key, expDate, t1, t2) ==
    LET sk == CreateNewRRSIG(zone, key, expDate, RRsetTTL(S, n, t), t1, t2)
    IN  [name |-> n, rrtype |-> TypeRRSIG, ttl |-> sk.ttl,
         rdata |-> [covered |-> t, labels |-> Len(n), origTTL |-> sk.ttl,
                    algorithm |-> sk.rdata.algorithm,
                    signer |-> sk.rdata.signer,
                    keytag |-> sk.rdata.keytag,
                    inception |-> sk.rdata.inception,
                    expiration |-> sk.rdata.expiration,
                    signature |->
                        Signature(key, ToBeSigned(n, t, sk.ttl, sk.rdata, S))]]

\* A slip the choice of RRsets could have: every RRset is signed
ToSign_Everything(S) == RRsetsOf(S)

\* The RRsets that receive an RRSIG
ToSign(S) == { p \in RRsetsOf(S) : Signable(S, p[1], p[2]) }

\* The zone as Sign writes it: the records, the two DNSKEYs, and an RRSIG for
\* every signed RRset, by the key-signing key for the DNSKEY RRset and by the
\* zone-signing key for the others
SignedZone(list, zone, ksk, zsk, expDate, t1, t2) ==
    LET S == Range(list) \cup {ksk, zsk}
    IN  S \cup { SignRRset(S, p[1], p[2], zone,
                           IF p[2] = TypeDNSKEY THEN ksk ELSE zsk,
                           expDate, t1, t2) : p \in ToSign(S) }

\* VerifyFile at the instant now: every RRSIG of the zone must be within its
\* validity period and verify under a DNSKEY of the apex with its key tag and
\* algorithm
VerifyFile(S, now) ==
    LET keys == Members(S, Apex, TypeDNSKEY)
        sigs == { r \in S : r.rrtype = TypeRRSIG }
        matching(sig) ==
            { k \in keys : /\ KeyTag(k) = sig.rdata.keytag
                           /\ k.rdata.algorithm = sig.rdata.algorithm }
        verifies(sig, k) ==
            sig.rdata.signature =
                Signature(k, ToBeSigned(sig.name, sig.rdata.covered,
                                        sig.rdata.origTTL, sig.rdata, S \ sigs))
    IN  IF \E sig \in sigs : sig.rdata.inception > now THEN "not yet valid"
        ELSE IF \E sig \in sigs : sig.rdata.expiration < now THEN "expired"
        ELSE IF \E sig \in sigs : matching(sig) = {} THEN "no matching DNSKEY"
        ELSE IF \E sig \in sigs : \A k \in matching(sig) : ~verifies(sig, k)
             THEN "signature mismatch"
        ELSE "nil"

-----------------------------------------------------------------------------
(* The helper sign and the tests (signer_test.go) *)

\* The key pairs a token can generate: key-signing key, zone-signing key
KeyPairs == { <<KSK1, ZSK1>>, <<KSK1, ZSK2>> }

\* The instants at which the tests run
TestNows == { At(2026, 11, 1, 0), At(2105, 6, 1, 0) }

\* The expiration dates the tests pass, and a date before the epoch
TestExpDates(now) == { ZeroTime, AddDate(now, -1), At(1960, 1, 1, 0) }

InitTest ==
    /\ ParsedTestZone /\ rrsig = <<>> /\ keyArg = <<>> /\ ttlArg = 0
    /\ pcR = "idle"
    /\ NSEC3 \in BOOLEAN
    /\ OptOut \in BOOLEAN
    /\ (OptOut => NSEC3)
    /\ RRs \in ZonesUnderTest
    /\ salt = <<>> /\ lastErr = "unset"
    /\ nsecCalls = 0 /\ nsec3Calls = 0 /\ nsec3Errs = 0
    /\ ret13 = "unset" /\ pc13 = "idle"
    /\ clock \in TestNows
    /\ SignExpDate \in TestExpDates(clock)
    /\ CreateKeys = TRUE
    /\ hsmKeys \in { {}, {KSK1, ZSK2} }
    /\ session = "nil"
    /\ err = "nil"
    /\ signedAt = 0
    /\ output = {}
    /\ verifyErr = "unset"
    /\ pcT = "NewSession"

\* Line 33: NewSession opens the library and a session and logs in, or fails
\* and returns no session
T_NewSession ==
    /\ pcT = "NewSession"
    /\ \E ok \in BOOLEAN :
         /\ session' = IF ok THEN "open" ELSE "nil"
         /\ err' = IF ok THEN "nil" ELSE "session error"
    /\ pcT' = "Pipe"
    /\ UNCHANGED <<CreateKeys, hsmKeys, signedAt, output, verifyErr,
                   parseVars, denialVars, timeVars, rrsigVars>>

\* Lines 34-43: os.Pipe assigns err again; the helper returns when the pipe
\* could not be made
T_Pipe ==
    /\ pcT = "Pipe"
    /\ \E ok \in BOOLEAN :
         /\ err' = IF ok THEN "nil" ELSE "pipe error"
         /\ pcT' = IF ok THEN "DestroyAllKeys" ELSE "returned error"
    /\ UNCHANGED <<CreateKeys, hsmKeys, session, signedAt, output, verifyErr,
                   parseVars, denialVars, timeVars, rrsigVars>>

\* Line 44: the keys of the token are destroyed, and the error of that is
\* dropped; on no session the call dereferences nil
T_DestroyAllKeys ==
    /\ pcT = "DestroyAllKeys"
    /\ IF session = "nil"
       THEN /\ pcT' = "panic"
            /\ hsmKeys' = hsmKeys
       ELSE /\ pcT' = "Sign"
            /\ \E ok \in BOOLEAN : hsmKeys' = IF ok THEN {} ELSE hsmKeys
    /\ UNCHANGED <<CreateKeys, session, err, signedAt, output, verifyErr,
                   parseVars, denialVars, timeVars, rrsigVars>>

\* Line 46, Sign, first part: the key pairs of the token are looked up and,
\* if there are none, created when CreateKeys is set; then the denial chain
\* is built by AddNSEC13.  A failure of the token ends Sign with an error
\* (lines 47-50).
T_SignKeys ==
    /\ pcT = "Sign"
    /\ \/ /\ hsmKeys # {}
          /\ hsmKeys' = hsmKeys
          /\ pcT' = "Sign: AddNSEC13" /\ pc13' = "entry" /\ err' = err
       \/ /\ hsmKeys = {} /\ CreateKeys
          /\ \E kp \in KeyPairs : hsmKeys' = {kp[1], kp[2]}
          /\ pcT' = "Sign: AddNSEC13" /\ pc13' = "entry" /\ err' = err
       \/ /\ hsmKeys' = hsmKeys
          /\ pcT' = "returned error" /\ pc13' = pc13 /\ err' = "HSM error"
    /\ UNCHANGED <<CreateKeys, session, signedAt, output, verifyErr, parseVars,
                   NSEC3, OptOut, RRs, salt, lastErr, nsecCalls, nsec3Calls,
                   nsec3Errs, ret13, timeVars, rrsigVars>>

\* Line 46, Sign, last part, once AddNSEC13 has returned: every RRset is
\* signed and the zone is written, or a signing call fails and nothing is
\* written (lines 47-50)
T_SignRRsets ==
    /\ pcT = "Sign: AddNSEC13"
    /\ pc13 = "returned"
    /\ \/ \E d \in 0..MaxElapsed :
            LET ksk == CHOOSE k \in hsmKeys : k.rdata.flags = 257
                zsk == CHOOSE k \in hsmKeys : k.rdata.flags = 256
            IN  /\ clock' = clock + d
                /\ signedAt' = clock
                /\ output' = SignedZone(RRs, Zone, ksk, zsk, SignExpDate,
                                        clock, clock + d)
                /\ err' = "nil"
                /\ pcT' = "End"
       \/ /\ err' = "HSM error"
          /\ pcT' = "returned error"
          /\ UNCHANGED <<clock, signedAt, output>>
    /\ UNCHANGED <<CreateKeys, hsmKeys, session, verifyErr, SignExpDate,
                   parseVars, denialVars, rrsigVars>>

\* Lines 51-55: the session is ended; the helper returns the reader, or the
\* error of End
T_End ==
    /\ pcT = "End"
    /\ \/ /\ session' = "closed"
          /\ err' = "nil"
          /\ pcT' = "returned"
       \/ /\ session' \in {"open", "closed"}
          /\ err' = "end error"
          /\ pcT' = "returned error"
    /\ UNCHANGED <<CreateKeys, hsmKeys, signedAt, output, verifyErr,
                   parseVars, denialVars, timeVars, rrsigVars>>

\* The tests, after the helper returned a reader: VerifyFile reads what was
\* written, some time later (lines 69, 87, 105, 124)
T_Verify ==
    /\ pcT = "returned"
    /\ \E d \in 0..MaxElapsed :
         /\ clock' = clock + d
         /\ verifyErr' = VerifyFile(output, U32(clock + d))
    /\ pcT' = "verified"
    /\ UNCHANGED <<CreateKeys, hsmKeys, session, err, signedAt, output,
                   SignExpDate, parseVars, denialVars, rrsigVars>>

NextTest ==
    \/ T_NewSession \/ T_Pipe \/ T_DestroyAllKeys \/ T_SignKeys
    \/ AddNSEC13_NSEC \/ AddNSEC13_NSEC3
    \/ T_SignRRsets \/ T_End \/ T_Verify

SpecTest == InitTest /\ [][NextTest]_vars

-----------------------------------------------------------------------------
(* Properties of the signed zone and of the helper sign *)

RRSIGsOf(S) == { r \in S : r.rrtype = TypeRRSIG }

\* The helper sign has returned to the test
Returned == pcT \in {"returned", "returned error", "verified"}

C2_ExpiredRejected ==
    ( /\ pcT = "verified"
      /\ ~IsZero(SignExpDate)
      /\ SignExpDate < signedAt )
    => verifyErr # "nil"

C4_SessionReleased == Returned => session # "open"

====
